---- MODULE Spec2Model ----
(***************************************************************************)
(* Model of src/app.py: the module-level data loading (lines 26-47) and    *)
(* the two request handlers get_top_books (55-69) and recommend (75-107).  *)
(*                                                                         *)
(* Strings are sequences of one-character strings, so that str.strip,      *)
(* str.lower and the substring test are computed and not assumed.  Python  *)
(* dicts are sequences of <<key, value>> pairs with distinct keys, in      *)
(* insertion order.  Python positions are 0-based, as in the code.         *)
(***************************************************************************)
EXTENDS Integers, Sequences, FiniteSets, TLC

VARIABLES disk,              \* the four artifacts as found on disk
          lpc,               \* position of the module-level loading code
          lexc,              \* exception in flight in the loading code
          pt,                \* global pt
          similarity_score,  \* global similarity_score
          book_info,         \* global book_info (the raw top-50 mapping)
          top_book_info,     \* global top_book_info
          full_book_info,    \* global full_book_info
          frame,             \* per request worker: the handler's locals
          resp               \* per request worker: the last payload returned

shared == <<pt, similarity_score, top_book_info, full_book_info>>
vars == <<disk, lpc, lexc, pt, similarity_score, book_info, top_book_info,
          full_book_info, frame, resp>>

----------------------------------------------------------------------------
(* Bounds of the model *)

\* largest number of titles in a generated title index
MaxN == 7
\* largest number of titles in an index built from SmallTitles
SmallN == 2
\* largest number of entries of a generated metadata collection
MaxCat == 2
\* number of request workers in the concurrent specification
NumWorkers == 2

(* Program constants *)

\* sorted(...)[1:6]: first position kept
SliceFrom == 1
\* sorted(...)[1:6]: first position not kept
SliceTo == 6

Min(a, b) == IF a <= b THEN a ELSE b

----------------------------------------------------------------------------
(* Strings *)

IsSpace(c) == c = " "

\* str.lower on one character
LowerChar(c) == CASE c = "A" -> "a"
                  [] c = "B" -> "b"
                  [] OTHER -> c

\* str.lower
Lower(s) == [i \in 1..Len(s) |-> LowerChar(s[i])]

RECURSIVE LStrip(_)
LStrip(s) == IF s # <<>> /\ IsSpace(Head(s)) THEN LStrip(Tail(s)) ELSE s

RECURSIVE RStrip(_)
RStrip(s) == IF s # <<>> /\ IsSpace(s[Len(s)])
             THEN RStrip(SubSeq(s, 1, Len(s) - 1))
             ELSE s

\* str.strip
Strip(s) == RStrip(LStrip(s))

\* the Python test "a in b" on strings
Contains(a, b) ==
  \E i \in 0..(Len(b) - Len(a)) : SubSeq(b, i + 1, i + Len(a)) = a

----------------------------------------------------------------------------
(* Python values: a tag and a sequence *)

Unset == [tag |-> "unset", val |-> <<>>]
None == [tag |-> "None", val |-> <<>>]
EmptyDict == [tag |-> "dict", val |-> <<>>]
Dict(items) == [tag |-> "dict", val |-> items]
DataFrame(index) == [tag |-> "DataFrame", val |-> index]
NdArray(rows) == [tag |-> "ndarray", val |-> rows]

\* truth value of a dict
Truthy(d) == d.val # <<>>

Keys(items) == {items[i][1] : i \in 1..Len(items)}

\* d[k] = v on a dict: an existing key keeps its position
DictSet(items, k, v) ==
  IF k \in Keys(items)
  THEN [i \in 1..Len(items) |-> IF items[i][1] = k THEN <<k, v>> ELSE items[i]]
  ELSE Append(items, <<k, v>>)

\* d.get(k, default)
DictGet(items, k, default) ==
  IF k \in Keys(items)
  THEN (CHOOSE p \in {items[i] : i \in 1..Len(items)} : p[1] = k)[2]
  ELSE default

RECURSIVE StripKeysFrom(_, _)
StripKeysFrom(items, acc) ==
  IF items = <<>> THEN acc
  ELSE StripKeysFrom(Tail(items),
                     DictSet(acc, Strip(Head(items)[1]), Head(items)[2]))

\* mutant: the keys are inserted as they are
KeepKeys(items) == items

\* {k.strip(): v for k, v in d.items()}
StripKeys(items) == StripKeysFrom(items, <<>>)

\* a metadata record: a mapping with some of the fields author, image
NoFields == [f \in {} |-> ""]

\* data.get("author", "Unknown Author"), data.get("image", "")
Field(rec, f, default) == IF f \in DOMAIN rec THEN rec[f] ELSE default

\* mutant: an absent author is returned as the empty string
EntryNoDefault(title, rec) ==
  [title |-> title,
   author |-> Field(rec, "author", ""),
   image |-> Field(rec, "image", "")]

Entry(title, rec) ==
  [title |-> title,
   author |-> Field(rec, "author", "Unknown Author"),
   image |-> Field(rec, "image", "")]

----------------------------------------------------------------------------
(* Ranking *)

\* list(enumerate(row)): pairs <<column, score>>, columns from 0
Enumerate(row) == [j \in 1..Len(row) |-> <<j - 1, row[j]>>]

\* where a pair goes in a list sorted by descending score: after every pair
\* whose score is at least its own (the sort is stable)
InsertPos(sorted, p) ==
  Cardinality({i \in 1..Len(sorted) : sorted[i][2] >= p[2]})

InsertDesc(sorted, p) ==
  LET n == InsertPos(sorted, p)
  IN SubSeq(sorted, 1, n) \o <<p>> \o SubSeq(sorted, n + 1, Len(sorted))

RECURSIVE SortDescFrom(_, _)
SortDescFrom(pairs, acc) ==
  IF pairs = <<>> THEN acc
  ELSE SortDescFrom(Tail(pairs), InsertDesc(acc, Head(pairs)))

RECURSIVE Reverse(_)
Reverse(s) == IF s = <<>> THEN <<>> ELSE Append(Reverse(Tail(s)), Head(s))

\* mutant: reverse=True is missing, the sort is ascending
SortAsc(pairs) == Reverse(SortDescFrom(Reverse(pairs), <<>>))

\* sorted(pairs, key=lambda x: x[1], reverse=True)
SortDesc(pairs) == SortDescFrom(pairs, <<>>)

\* mutant: s[1:7]
SliceWide(s) == SubSeq(s, SliceFrom + 1, Min(SliceTo + 1, Len(s)))

\* mutant: s[0:5], the first of the sorted list is kept
SliceFromZero(s) == SubSeq(s, SliceFrom, Min(SliceTo - 1, Len(s)))

\* s[1:6]
Slice(s) == SubSeq(s, SliceFrom + 1, Min(SliceTo, Len(s)))

----------------------------------------------------------------------------
(* The artifacts the loading code may find on disk *)

FileNames == {"pt.pkl", "similarity_score.pkl", "top50_book_info.pkl",
              "book_info.pkl.gz"}

\* a file is there and unpickles ("ok"), is not there ("absent"), cannot be
\* opened ("unreadable"), or opens and does not unpickle ("corrupt")
Statuses == {"ok", "absent", "unreadable", "corrupt"}

AllOk == [f \in FileNames |-> "ok"]

Scores == {0, 1, 2}

RECURSIVE Binary(_)
Binary(i) == IF i = 0 THEN <<>>
             ELSE Binary(i \div 2) \o <<IF i % 2 = 1 THEN "b" ELSE "a">>

\* the i-th generated title: b, ba, bb, baa, bab, bba, bbb, ...
Title(i) == Binary(i)

TitlesUp(n) == [i \in 1..n |-> Title(i)]
TitlesDown(n) == [i \in 1..n |-> Title(n + 1 - i)]

\* titles with capitals and surrounding blanks
SmallTitles == {<<"a">>, <<"A", "b">>, <<" ", "b">>, <<"b", "a">>}

RECURSIVE InjectiveSeqs(_, _)
InjectiveSeqs(S, n) ==
  IF n = 0 THEN {<<>>}
  ELSE UNION {{Append(s, x) : x \in S \ {s[i] : i \in 1..Len(s)}} :
                s \in InjectiveSeqs(S, n - 1)}

SmallIndexes == UNION {InjectiveSeqs(SmallTitles, n) : n \in 1..SmallN}

\* r rows of c columns; row i is base rotated right by i - 1 places, so that
\* base[1] is the diagonal
Rotated(r, c, base) ==
  [i \in 1..r |-> [j \in 1..c |-> base[((j - i) % c) + 1]]]

\* the diagonal is the strict maximum of every row
Graded(n) == Rotated(n, n, [j \in 1..n |-> n - j])

Rec1 == [f \in {"author", "image"} |-> IF f = "author" THEN "au1" ELSE "im1"]
Rec2 == [f \in {"author"} |-> "au2"]
Records == {Rec1, Rec2, NoFields}

CatKeys == {<<"b">>, <<"b", " ">>, <<" ">>, <<"a">>}

\* the mappings of exactly n entries, in every insertion order
RECURSIVE CatalogsOfLen(_)
CatalogsOfLen(n) ==
  IF n = 0 THEN {<<>>}
  ELSE UNION {{Append(c, <<k, r>>) : k \in CatKeys \ Keys(c), r \in Records} :
                c \in CatalogsOfLen(n - 1)}

Catalogs == UNION {CatalogsOfLen(n) : n \in 0..MaxCat}

OneBook == << <<<<"b">>, Rec1>> >>

File(status, obj) == [status |-> status, obj |-> obj]

MkDisk(index, rows, top, full, st) ==
  [f \in FileNames |->
     CASE f = "pt.pkl" -> File(st[f], DataFrame(index))
       [] f = "similarity_score.pkl" -> File(st[f], NdArray(rows))
       [] f = "top50_book_info.pkl" -> File(st[f], Dict(top))
       [] OTHER -> File(st[f], Dict(full))]

\* the index and the matrix used where only the mappings or the files vary
CatIndex == << <<"a">>, <<" ", "b">>, <<"A", "b">> >>

\* square matrices of every size up to MaxN, every row pattern over Scores
RankDisks ==
  \E n \in 1..MaxN : \E base \in [1..n -> Scores] :
    disk = MkDisk(TitlesUp(n), Rotated(n, n, base), OneBook, OneBook, AllOk)

\* the longer titles first: a title is preceded by titles that contain it
DownDisks ==
  \E n \in 1..MaxN :
    disk = MkDisk(TitlesDown(n), Graded(n), OneBook, OneBook, AllOk)

\* matrices whose shape need not be that of the index
ShapeDisks ==
  \E n \in 1..(SmallN + 1) : \E r, c \in 1..(n + 1) : \E base \in [1..c -> Scores] :
    disk = MkDisk(TitlesUp(n), Rotated(r, c, base), OneBook, OneBook, AllOk)

\* every short index over SmallTitles
MatchDisks ==
  \E index \in SmallIndexes :
    disk = MkDisk(index, Graded(Len(index)), OneBook, OneBook, AllOk)

\* every small mapping as the full or as the top-50 metadata
CatalogDisks ==
  \E c \in Catalogs :
    \/ disk = MkDisk(CatIndex, Graded(Len(CatIndex)), OneBook, c, AllOk)
    \/ disk = MkDisk(CatIndex, Graded(Len(CatIndex)), c, OneBook, AllOk)

\* a full metadata artifact that holds no entry, for every size of index
EmptyFullDisks ==
  \E n \in 1..MaxN :
    disk = MkDisk(TitlesUp(n), Graded(n), OneBook, <<>>, AllOk)

\* every combination of missing, unreadable and corrupt files
FailDisks ==
  \E st \in [FileNames -> Statuses] :
    disk = MkDisk(CatIndex, Graded(Len(CatIndex)), OneBook, OneBook, st)

Disks ==
  \/ RankDisks
  \/ DownDisks
  \/ ShapeDisks
  \/ MatchDisks
  \/ CatalogDisks
  \/ EmptyFullDisks
  \/ FailDisks

TwoBooks == << <<<<"b", " ">>, Rec1>>, <<<<"A", "b">>, Rec2>> >>

\* the artifacts of the concurrent specification: a full set, one with the
\* last file missing or corrupt, and one whose matrix has one row of three
\* columns for an index of two titles
ConcDisks ==
  \/ \E st \in {"ok", "absent", "corrupt"} :
       disk = MkDisk(CatIndex, Graded(Len(CatIndex)), OneBook, TwoBooks,
                     [AllOk EXCEPT !["book_info.pkl.gz"] = st])
  \/ disk = MkDisk(TitlesUp(2), Rotated(1, 3, <<2, 1, 0>>), OneBook, TwoBooks, AllOk)

\* the query strings of the requests
Queries == {<<>>, <<" ">>, <<" ", "b">>, <<"B", "a">>, <<"A">>, <<"c">>}

----------------------------------------------------------------------------
(* State *)

IdleFrame == [pc |-> "idle", book |-> <<>>, q |-> <<>>, matches |-> <<>>,
              idx |-> 0, sims |-> <<>>, recommendations |-> <<>>]

\* a payload: {"error": ...}, {"books": [...]} or {"recommended": [...]},
\* with the request it answers
Payload(op, book, key, error, items) ==
  [op |-> op, book |-> book, key |-> key, error |-> error, items |-> items]

NoResp == Payload("none", <<>>, "none", "", <<>>)

Workers == 1..NumWorkers

Started ==
  /\ lpc = "load_pt"
  /\ lexc = "none"
  /\ pt = Unset
  /\ similarity_score = Unset
  /\ book_info = Unset
  /\ top_book_info = Unset
  /\ full_book_info = Unset
  /\ frame = [w \in Workers |-> IdleFrame]
  /\ resp = [w \in Workers |-> NoResp]

Init == Disks /\ Started

----------------------------------------------------------------------------
(* Module-level data loading, lines 26-47 *)

\* what open() and pickle.load() raise on a file that is not "ok"
Raised(status) == CASE status = "absent" -> "FileNotFoundError"
                    [] status = "unreadable" -> "PermissionError"
                    [] OTHER -> "UnpicklingError"

Raise(e) == lexc' = e /\ lpc' = "raised"

LoadPt ==
  /\ lpc = "load_pt"
  /\ IF disk["pt.pkl"].status = "ok"
     THEN /\ pt' = disk["pt.pkl"].obj
          /\ lpc' = "load_sim"
          /\ UNCHANGED lexc
     ELSE /\ Raise(Raised(disk["pt.pkl"].status))
          /\ UNCHANGED pt
  /\ UNCHANGED <<disk, similarity_score, book_info, top_book_info,
                 full_book_info, frame, resp>>

LoadSim ==
  /\ lpc = "load_sim"
  /\ IF disk["similarity_score.pkl"].status = "ok"
     THEN /\ similarity_score' = disk["similarity_score.pkl"].obj
          /\ lpc' = "load_top"
          /\ UNCHANGED lexc
     ELSE /\ Raise(Raised(disk["similarity_score.pkl"].status))
          /\ UNCHANGED similarity_score
  /\ UNCHANGED <<disk, pt, book_info, top_book_info, full_book_info, frame, resp>>

LoadTop ==
  /\ lpc = "load_top"
  /\ IF disk["top50_book_info.pkl"].status = "ok"
     THEN /\ book_info' = disk["top50_book_info.pkl"].obj
          /\ lpc' = "load_full"
          /\ UNCHANGED lexc
     ELSE /\ Raise(Raised(disk["top50_book_info.pkl"].status))
          /\ UNCHANGED book_info
  /\ UNCHANGED <<disk, pt, similarity_score, top_book_info, full_book_info,
                 frame, resp>>

LoadFull ==
  /\ lpc = "load_full"
  /\ IF disk["book_info.pkl.gz"].status = "ok"
     THEN /\ full_book_info' = disk["book_info.pkl.gz"].obj
          /\ lpc' = "normalize"
          /\ UNCHANGED lexc
     ELSE /\ Raise(Raised(disk["book_info.pkl.gz"].status))
          /\ UNCHANGED full_book_info
  /\ UNCHANGED <<disk, pt, similarity_score, book_info, top_book_info, frame, resp>>

\* lines 40-42
Normalize ==
  /\ lpc = "normalize"
  /\ top_book_info' = Dict(StripKeys(book_info.val))
  /\ full_book_info' = Dict(StripKeys(full_book_info.val))
  /\ lpc' = "serving"
  /\ UNCHANGED <<disk, lexc, pt, similarity_score, book_info, frame, resp>>

\* lines 44-47
ExceptNotFound ==
  /\ lpc = "raised"
  /\ lexc = "FileNotFoundError"
  /\ pt' = None
  /\ similarity_score' = None
  /\ top_book_info' = EmptyDict
  /\ full_book_info' = EmptyDict
  /\ lexc' = "none"
  /\ lpc' = "serving"
  /\ UNCHANGED <<disk, book_info, frame, resp>>

\* no except clause matches: the exception leaves the module and the import of
\* app fails
Propagate ==
  /\ lpc = "raised"
  /\ lexc # "FileNotFoundError"
  /\ lpc' = "crashed"
  /\ UNCHANGED <<disk, lexc, pt, similarity_score, book_info, top_book_info,
                 full_book_info, frame, resp>>

Load == LoadPt \/ LoadSim \/ LoadTop \/ LoadFull \/ Normalize
          \/ ExceptNotFound \/ Propagate

----------------------------------------------------------------------------
(* get_top_books, lines 55-69 *)

NotLoaded == "Book data not loaded."
NotReady == "Recommendation engine not ready. Data not loaded."

\* the loop of lines 62-68
Books(items) == [i \in 1..Len(items) |-> Entry(items[i][1], items[i][2])]

\* mutant: the emptiness test of line 59 is missing
GetTopBooksNoCheck(w) ==
  /\ lpc = "serving"
  /\ frame[w].pc = "idle"
  /\ resp' = [resp EXCEPT ![w] =
                Payload("top-books", <<>>, "books", "", Books(top_book_info.val))]
  /\ UNCHANGED <<disk, lpc, lexc, pt, similarity_score, book_info,
                 top_book_info, full_book_info, frame>>

GetTopBooks(w) ==
  /\ lpc = "serving"
  /\ frame[w].pc = "idle"
  /\ resp' = [resp EXCEPT ![w] =
                IF ~Truthy(top_book_info)
                THEN Payload("top-books", <<>>, "error", NotLoaded, <<>>)
                ELSE Payload("top-books", <<>>, "books", "",
                             Books(top_book_info.val))]
  /\ UNCHANGED <<disk, lpc, lexc, pt, similarity_score, book_info,
                 top_book_info, full_book_info, frame>>

----------------------------------------------------------------------------
(* recommend, lines 75-107 *)

Return(w, key, error, items) ==
  /\ resp' = [resp EXCEPT ![w] = Payload("recommend", frame[w].book, key, error, items)]
  /\ frame' = [frame EXCEPT ![w] = IdleFrame]

\* line 80
Ready ==
  /\ pt # None
  /\ similarity_score # None
  /\ Truthy(full_book_info)

\* lines 75-81
RecStart(w, book) ==
  /\ lpc = "serving"
  /\ frame[w].pc = "idle"
  /\ IF ~Ready
     THEN /\ resp' = [resp EXCEPT ![w] =
                        Payload("recommend", book, "error", NotReady, <<>>)]
          /\ UNCHANGED frame
     ELSE /\ frame' = [frame EXCEPT ![w] = [IdleFrame EXCEPT !.pc = "match",
                                                            !.book = book]]
          /\ resp' = [resp EXCEPT ![w] = NoResp]
  /\ UNCHANGED <<disk, lpc, lexc, pt, similarity_score, book_info,
                 top_book_info, full_book_info>>

\* mutant: the title is not lowercased
MatchesCaseSensitive(index, q) == SelectSeq(index, LAMBDA t : Contains(q, t))

\* line 86
Matches(index, q) == SelectSeq(index, LAMBDA t : Contains(q, Lower(t)))

\* lines 83-88
RecMatch(w) ==
  /\ frame[w].pc = "match"
  /\ LET q == Lower(Strip(frame[w].book))
         matches == Matches(pt.val, q)
     IN IF matches = <<>>
        THEN Return(w, "recommended", "", <<>>)
        ELSE /\ frame' = [frame EXCEPT ![w].pc = "rank", ![w].q = q,
                                       ![w].matches = matches]
             /\ UNCHANGED resp
  /\ UNCHANGED <<disk, lpc, lexc, pt, similarity_score, book_info,
                 top_book_info, full_book_info>>

\* np.where(pt.index == title)[0]: the positions, from 0, that hold title
Where(index, title) == {i \in 0..(Len(index) - 1) : index[i + 1] = title}

Least(S) == CHOOSE x \in S : \A y \in S : x <= y

\* line 93
Sims(row) == Slice(SortDesc(Enumerate(row)))

\* lines 92-95
RecRank(w) ==
  /\ frame[w].pc = "rank"
  /\ LET found == Where(pt.val, frame[w].matches[1])
     IN IF found = {} \/ Least(found) >= Len(similarity_score.val)
        THEN frame' = [frame EXCEPT ![w].pc = "except"]
        ELSE frame' = [frame EXCEPT ![w].pc = "loop",
                         ![w].idx = Least(found),
                         ![w].sims = Sims(similarity_score.val[Least(found) + 1]),
                         ![w].recommendations = <<>>]
  /\ UNCHANGED <<disk, lpc, lexc, pt, similarity_score, book_info,
                 top_book_info, full_book_info, resp>>

\* d.pop(k, default) on the items of a dict: what is left
Without(items, k) == SelectSeq(items, LAMBDA p : p[1] # k)

\* mutant: full_book_info.pop(title, {}) in place of full_book_info.get
RecLoopPop(w) ==
  /\ frame[w].pc = "loop"
  /\ frame[w].sims # <<>>
  /\ LET i == Head(frame[w].sims)
     IN IF i[1] >= Len(pt.val)
        THEN /\ frame' = [frame EXCEPT ![w].pc = "except"]
             /\ UNCHANGED full_book_info
        ELSE LET title == Strip(pt.val[i[1] + 1])
                 info == DictGet(full_book_info.val, title, NoFields)
             IN /\ frame' = [frame EXCEPT
                               ![w].sims = Tail(frame[w].sims),
                               ![w].recommendations =
                                  Append(frame[w].recommendations, Entry(title, info))]
                /\ full_book_info' = Dict(Without(full_book_info.val, title))
  /\ UNCHANGED <<disk, lpc, lexc, pt, similarity_score, book_info,
                 top_book_info, resp>>

\* lines 96-103, one iteration
RecLoop(w) ==
  /\ frame[w].pc = "loop"
  /\ frame[w].sims # <<>>
  /\ LET i == Head(frame[w].sims)
     IN IF i[1] >= Len(pt.val)
        THEN frame' = [frame EXCEPT ![w].pc = "except"]
        ELSE LET title == Strip(pt.val[i[1] + 1])
                 info == DictGet(full_book_info.val, title, NoFields)
             IN frame' = [frame EXCEPT
                            ![w].sims = Tail(frame[w].sims),
                            ![w].recommendations =
                               Append(frame[w].recommendations, Entry(title, info))]
  /\ UNCHANGED <<disk, lpc, lexc, pt, similarity_score, book_info,
                 top_book_info, full_book_info, resp>>

\* line 105
RecReturn(w) ==
  /\ frame[w].pc = "loop"
  /\ frame[w].sims = <<>>
  /\ Return(w, "recommended", "", frame[w].recommendations)
  /\ UNCHANGED <<disk, lpc, lexc, pt, similarity_score, book_info,
                 top_book_info, full_book_info>>

\* mutant: the handler returns what the loop had built
RecExceptPartial(w) ==
  /\ frame[w].pc = "except"
  /\ Return(w, "recommended", "", frame[w].recommendations)
  /\ UNCHANGED <<disk, lpc, lexc, pt, similarity_score, book_info,
                 top_book_info, full_book_info>>

\* lines 106-107
RecExcept(w) ==
  /\ frame[w].pc = "except"
  /\ Return(w, "recommended", "", <<>>)
  /\ UNCHANGED <<disk, lpc, lexc, pt, similarity_score, book_info,
                 top_book_info, full_book_info>>

Handle(w) ==
  \/ GetTopBooks(w)
  \/ \E book \in Queries : RecStart(w, book)
  \/ RecMatch(w)
  \/ RecRank(w)
  \/ RecLoop(w)
  \/ RecReturn(w)
  \/ RecExcept(w)

\* requests served one at a time
Next == Load \/ Handle(1)

Spec == Init /\ [][Next]_vars

\* requests served by NumWorkers threads, their steps interleaved
InitConc == ConcDisks /\ Started

NextConc == Load \/ \E w \in Workers : Handle(w)

SpecConc == InitConc /\ [][NextConc]_vars

----------------------------------------------------------------------------
(* Vocabulary of the properties *)

Index == pt.val
N == Len(pt.val)
Rows == similarity_score.val

\* the load ran to its end with all four artifacts read
LoadedOk == lpc = "serving" /\ \A f \in FileNames : disk[f].status = "ok"

\* the load ended in the except branch
LoadFailed == lpc = "serving" /\ \E f \in FileNames : disk[f].status # "ok"

\* the matrix is N x N
Square == Len(Rows) = N /\ \A i \in 1..Len(Rows) : Len(Rows[i]) = N

Sentinel ==
  /\ pt = None
  /\ similarity_score = None
  /\ top_book_info = EmptyDict
  /\ full_book_info = EmptyDict

\* the query as matched: trimmed and lowercased
NormQ(book) == Lower(Strip(book))

\* the positions, from 0, of the titles that contain the normalized query
MatchPositions(book) ==
  {i \in 0..(N - 1) : Contains(NormQ(book), Lower(Index[i + 1]))}

FirstMatch(book) == Least(MatchPositions(book))

\* the position, from 0, of column j (from 0) in the row sorted by descending
\* score, equal scores in column order
RankOf(row, j) ==
  Cardinality({k \in 0..(Len(row) - 1) :
                 \/ row[k + 1] > row[j + 1]
                 \/ row[k + 1] = row[j + 1] /\ k < j})

\* the column, from 0, at position p of the sorted row
ColumnAt(row, p) == CHOOSE j \in 0..(Len(row) - 1) : RankOf(row, j) = p

Titles(items) == [k \in 1..Len(items) |-> items[k].title]

IsNotReady(r) == r.key = "error" /\ r.error = NotReady
IsNotLoaded(r) == r.key = "error" /\ r.error = NotLoaded
IsList(r) == r.key = "recommended" /\ r.error = ""

InFlight(w) == frame[w].pc # "idle"

\* the steps recommend can be at: the IndexError of lines 92-103 is at
\* "except", inside the handler
Progresses(w) == frame[w].pc \in {"idle", "match", "rank", "loop", "except"}

----------------------------------------------------------------------------
(* C1: with N unique titles, an N x N matrix and any full catalogue, every  *)
(* recommend call runs to a payload without an exception leaving it, and    *)
(* the payload is the not-ready error or a list of 0 to 5 recommendations.  *)
C1_AtMostFive ==
  \A w \in Workers :
    (LoadedOk /\ Square) =>
      /\ Progresses(w)
      /\ resp[w].op = "recommend" =>
           \/ IsNotReady(resp[w])
           \/ IsList(resp[w]) /\ Len(resp[w].items) \in 0..5

\* seven titles: the list is cut to 5 of the 6 other columns
C1_Witness ==
  \E w \in Workers :
    /\ LoadedOk /\ Square /\ N >= 7
    /\ resp[w].op = "recommend"
    /\ IsList(resp[w])
    /\ Len(resp[w].items) = 5

----------------------------------------------------------------------------
ErrorsOnly ==
  \A w \in Workers :
    /\ ~InFlight(w)
    /\ resp[w].op = "recommend" => IsNotReady(resp[w])
    /\ resp[w].op = "top-books" => IsNotLoaded(resp[w])

(* C3: after a load that ended in the except branch, every recommend call   *)
(* returns the not-ready error payload and every top-books call the         *)
(* not-loaded error payload, no call is left in flight or returns a list,   *)
(* and no step of a request changes the four structures.                    *)
C3_NotReadyForever ==
  [][/\ LoadFailed => (LoadFailed' /\ Sentinel /\ Sentinel')
     /\ LoadFailed' => ErrorsOnly']_vars

\* the not-ready payload has been returned after a failed load
C3_Witness ==
  /\ LoadFailed
  /\ \E w \in Workers : resp[w].op = "recommend" /\ IsNotReady(resp[w])


----------------------------------------------------------------------------
(* C5: once the readiness check has passed, the row recommend ranks is the  *)
(* row of the lowest position whose lowercased title contains the trimmed,  *)
(* lowercased query (row 0 for an empty or all-blank query), and a query    *)
(* that no title contains is answered with the empty list, not an error.    *)
C5_FirstMatchWins ==
  \A w \in Workers :
    (LoadedOk /\ Ready) =>
      /\ frame[w].pc = "rank" => MatchPositions(frame[w].book) # {}
      /\ frame[w].pc = "loop" =>
           /\ frame[w].idx = FirstMatch(frame[w].book)
           /\ Strip(frame[w].book) = <<>> => frame[w].idx = 0
           /\ frame[w].recommendations = <<>> =>
                frame[w].sims = Sims(Rows[FirstMatch(frame[w].book) + 1])
      /\ (resp[w].op = "recommend" /\ MatchPositions(resp[w].book) = {}) =>
           IsList(resp[w]) /\ resp[w].items = <<>>

\* a query that the first title does not contain but a later one does
C5_Witness ==
  \E w \in Workers :
    /\ LoadedOk /\ Ready
    /\ frame[w].pc = "loop"
    /\ frame[w].idx > 0
    /\ Cardinality(MatchPositions(frame[w].book)) > 1

----------------------------------------------------------------------------
(* C6: with an N x N matrix and a matched row, the recommended titles are,  *)
(* in order, the titles of the columns at positions 1 to min(5, N-1) of the *)
(* row sorted by descending score; position 0 is dropped whatever column it *)
(* holds, so the list has exactly min(5, N-1) entries.                      *)
C6_RanksOneToFive ==
  \A w \in Workers :
    (/\ LoadedOk /\ Ready /\ Square
     /\ resp[w].op = "recommend"
     /\ MatchPositions(resp[w].book) # {}) =>
      LET row == Rows[FirstMatch(resp[w].book) + 1]
      IN /\ IsList(resp[w])
         /\ Len(resp[w].items) = Min(5, N - 1)
         /\ \A k \in 1..Len(resp[w].items) :
              resp[w].items[k].title = Strip(Index[ColumnAt(row, k) + 1])

\* the row 0.2, 1.0, 0.9 of the second of three titles, as scores 0, 2, 1:
\* the third title and then the first are returned
C6_Witness ==
  \E w \in Workers :
    /\ LoadedOk /\ Ready /\ Square /\ N = 3
    /\ resp[w].op = "recommend"
    /\ MatchPositions(resp[w].book) # {}
    /\ FirstMatch(resp[w].book) = 1
    /\ Rows[2] = <<0, 2, 1>>
    /\ Titles(resp[w].items) = <<Index[3], Index[1]>>

----------------------------------------------------------------------------
OutOfRange(book) ==
  \/ FirstMatch(book) >= Len(Rows)
  \/ LET row == Rows[FirstMatch(book) + 1]
     IN \E p \in 1..Min(5, Len(row) - 1) : ColumnAt(row, p) >= N

(* C10: when the matched row lies beyond the rows of the matrix, or one of  *)
(* the columns selected from the row lies beyond the title index, recommend *)
(* returns the empty list: no exception leaves it, it is not the not-ready  *)
(* error, and the entries built before the bad column are not returned.     *)
C10_OutOfRangeIsEmpty ==
  \A w \in Workers :
    (LoadedOk /\ Ready) =>
      /\ Progresses(w)
      /\ (/\ resp[w].op = "recommend"
          /\ MatchPositions(resp[w].book) # {}
          /\ OutOfRange(resp[w].book)) =>
           IsList(resp[w]) /\ resp[w].items = <<>>

\* the IndexError is raised after some entries were built
C10_Witness ==
  \E w \in Workers :
    /\ LoadedOk /\ Ready
    /\ frame[w].pc = "except"
    /\ frame[w].recommendations # <<>>

\* the matched row is not a row of the matrix
C10_RowWitness ==
  \E w \in Workers :
    /\ LoadedOk /\ Ready
    /\ frame[w].pc = "except"
    /\ FirstMatch(frame[w].book) >= Len(Rows)

----------------------------------------------------------------------------
(* C2: if any of the four artifacts is absent, unreadable or does not       *)
(* deserialize, the load does not raise and ends with TitleIndex = none,    *)
(* SimilarityMatrix = none and both catalogues empty, also when earlier     *)
(* artifacts had been read before the failing one.                          *)
C2_LoadNeverRaises ==
  (\E f \in FileNames : disk[f].status # "ok") =>
    /\ lpc # "crashed"
    /\ lpc = "serving" => Sentinel

\* the part of C2 the code keeps: a missing file, met after others were read,
\* ends in the sentinel state
C2_AbsentWitness ==
  /\ disk["pt.pkl"].status = "ok"
  /\ disk["top50_book_info.pkl"].status = "absent"
  /\ lpc = "serving"
  /\ Sentinel

----------------------------------------------------------------------------
Verbatim(book) == \E i \in 1..N : Lower(Index[i]) = Lower(book)

OwnColumns(book) == {i \in 0..(N - 1) : Lower(Index[i + 1]) = Lower(book)}

SelectedColumns(w) == {frame[w].sims[k][1] : k \in 1..Len(frame[w].sims)}

(* C4, as claimed: with N >= 6 and a title T that is in the index up to     *)
(* case, recommend(T) returns exactly 5 results and none of them comes from *)
(* T's own column.                                                          *)
C4_Claim ==
  \A w \in Workers :
    (LoadedOk /\ Ready /\ Square /\ N >= 6) =>
      /\ (resp[w].op = "recommend" /\ Verbatim(resp[w].book)) =>
           IsList(resp[w]) /\ Len(resp[w].items) = 5
      /\ (frame[w].pc = "loop" /\ Verbatim(frame[w].book)) =>
           SelectedColumns(w) \cap OwnColumns(frame[w].book) = {}

\* the diagonal score of row i (from 0) is above every other score of the row
DiagonalIsMax(i) ==
  \A j \in 1..Len(Rows[i + 1]) : j # i + 1 => Rows[i + 1][i + 1] > Rows[i + 1][j]

(* C4, amended: with the engine ready, an N x N matrix, N >= 6 and a title  *)
(* T that is in the index up to case, recommend(T) returns                  *)
(* exactly 5 results; none of them comes from T's own column when T is the  *)
(* first title that contains the trimmed, lowercased T and the diagonal     *)
(* score of T's row is above every other score of that row.                 *)
C4_Amended ==
  \A w \in Workers :
    (LoadedOk /\ Ready /\ Square /\ N >= 6) =>
      /\ (resp[w].op = "recommend" /\ Verbatim(resp[w].book)) =>
           IsList(resp[w]) /\ Len(resp[w].items) = 5
      /\ (/\ frame[w].pc = "loop"
          /\ Verbatim(frame[w].book)
          /\ OwnColumns(frame[w].book) = {FirstMatch(frame[w].book)}
          /\ DiagonalIsMax(FirstMatch(frame[w].book))) =>
           SelectedColumns(w) \cap OwnColumns(frame[w].book) = {}

\* T is not the first title: its row is ranked, five columns are selected
C4_Witness ==
  \E w \in Workers :
    /\ LoadedOk /\ Ready /\ Square /\ N >= 6
    /\ frame[w].pc = "loop"
    /\ Verbatim(frame[w].book)
    /\ OwnColumns(frame[w].book) = {FirstMatch(frame[w].book)}
    /\ FirstMatch(frame[w].book) > 0
    /\ DiagonalIsMax(FirstMatch(frame[w].book))
    /\ Len(frame[w].sims) = 5

----------------------------------------------------------------------------
TopEntryOk(e, item) ==
  /\ e.title = item[1]
  /\ e.author = IF "author" \in DOMAIN item[2] THEN item[2]["author"]
                ELSE "Unknown Author"
  /\ e.image = IF "image" \in DOMAIN item[2] THEN item[2]["image"] ELSE ""

TopListOk(r) ==
  /\ IsNotLoaded(r) <=> top_book_info.val = <<>>
  /\ top_book_info.val # <<>> =>
       /\ r.key = "books"
       /\ Len(r.items) = Len(top_book_info.val)
       /\ \A i \in 1..Len(r.items) : TopEntryOk(r.items[i], top_book_info.val[i])

(* C7, as claimed: top-books returns the error payload exactly when         *)
(* TopCatalog is empty; otherwise one entry per key, in insertion order,    *)
(* each with a non-empty title, author defaulting to "Unknown Author" and   *)
(* image to the empty string.                                               *)
C7_Claim ==
  \A w \in Workers :
    resp[w].op = "top-books" =>
      /\ TopListOk(resp[w])
      /\ \A i \in 1..Len(resp[w].items) : resp[w].items[i].title # <<>>

(* C7, amended: top-books returns the error payload exactly when TopCatalog *)
(* is empty; otherwise one entry per key, in insertion order, with the key  *)
(* as title, author defaulting to "Unknown Author" and image to the empty   *)
(* string; a title is empty only when a key of the source collection is     *)
(* empty or all blanks.                                                     *)
C7_Amended ==
  \A w \in Workers :
    resp[w].op = "top-books" =>
      /\ TopListOk(resp[w])
      /\ \A i \in 1..Len(resp[w].items) :
           resp[w].items[i].title = <<>> =>
             \E k \in Keys(book_info.val) : Strip(k) = <<>>

\* two entries, one with an empty title, one with a defaulted author
C7_Witness ==
  \E w \in Workers :
    /\ resp[w].op = "top-books"
    /\ resp[w].key = "books"
    /\ Len(resp[w].items) = 2
    /\ \E i, j \in 1..2 : /\ resp[w].items[i].title = <<>>
                          /\ resp[w].items[j].title # <<>>
                          /\ resp[w].items[j].author = "Unknown Author"

----------------------------------------------------------------------------
SourceTop == disk["top50_book_info.pkl"].obj.val
SourceFull == disk["book_info.pkl.gz"].obj.val

(* C9, as claimed: after a successful load, for every key k of a source     *)
(* metadata collection the stripped key is in the normalized catalogue      *)
(* with the record the source stored under k, and a recommended title that  *)
(* is such a stripped key carries that record's author and image.           *)
C9_Claim ==
  LoadedOk =>
    /\ \A i \in 1..Len(SourceFull) :
         /\ Strip(SourceFull[i][1]) \in Keys(full_book_info.val)
         /\ DictGet(full_book_info.val, Strip(SourceFull[i][1]), NoFields)
              = SourceFull[i][2]
    /\ \A i \in 1..Len(SourceTop) :
         /\ Strip(SourceTop[i][1]) \in Keys(top_book_info.val)
         /\ DictGet(top_book_info.val, Strip(SourceTop[i][1]), NoFields)
              = SourceTop[i][2]
    /\ \A w \in Workers :
         (resp[w].op = "recommend" /\ IsList(resp[w])) =>
           \A j \in 1..Len(resp[w].items) : \A i \in 1..Len(SourceFull) :
             Strip(SourceFull[i][1]) = resp[w].items[j].title =>
               /\ resp[w].items[j].author
                    = Field(SourceFull[i][2], "author", "Unknown Author")
               /\ resp[w].items[j].image = Field(SourceFull[i][2], "image", "")

\* the record of the last key of the source, in its order, that strips to t
LastRecord(source, t) ==
  source[CHOOSE i \in 1..Len(source) :
           /\ Strip(source[i][1]) = t
           /\ \A j \in (i + 1)..Len(source) : Strip(source[j][1]) # t][2]

(* C9, amended: after a successful load, for every key k of a source        *)
(* metadata collection the stripped key is in the normalized catalogue,     *)
(* with the record of the last key of the source, in its order, that strips *)
(* to the same string (the record of k itself when no other key does); a    *)
(* recommended title that is such a stripped key carries that record's      *)
(* author and image, with the defaults for the fields the record lacks.     *)
C9_Amended ==
  LoadedOk =>
    /\ \A i \in 1..Len(SourceFull) :
         /\ Strip(SourceFull[i][1]) \in Keys(full_book_info.val)
         /\ DictGet(full_book_info.val, Strip(SourceFull[i][1]), NoFields)
              = LastRecord(SourceFull, Strip(SourceFull[i][1]))
    /\ \A i \in 1..Len(SourceTop) :
         /\ Strip(SourceTop[i][1]) \in Keys(top_book_info.val)
         /\ DictGet(top_book_info.val, Strip(SourceTop[i][1]), NoFields)
              = LastRecord(SourceTop, Strip(SourceTop[i][1]))
    /\ \A w \in Workers :
         (resp[w].op = "recommend" /\ IsList(resp[w])) =>
           \A j \in 1..Len(resp[w].items) : \A i \in 1..Len(SourceFull) :
             Strip(SourceFull[i][1]) = resp[w].items[j].title =>
               LET rec == LastRecord(SourceFull, resp[w].items[j].title)
               IN /\ resp[w].items[j].author
                       = Field(rec, "author", "Unknown Author")
                  /\ resp[w].items[j].image = Field(rec, "image", "")

\* the source holds "b" and then "b " with another record: a recommended
\* title "b" carries the record stored under "b "
C9_Witness ==
  \E w \in Workers :
    /\ LoadedOk
    /\ SourceFull = << <<<<"b">>, Rec2>>, <<<<"b", " ">>, Rec1>> >>
    /\ resp[w].op = "recommend" /\ IsList(resp[w])
    /\ \E j \in 1..Len(resp[w].items) :
         /\ resp[w].items[j].title = <<"b">>
         /\ resp[w].items[j].author = "au1"
         /\ resp[w].items[j].image = "im1"

----------------------------------------------------------------------------
SameQuerySameOutput ==
  \A w1, w2 \in Workers :
    (/\ resp[w1].op = "recommend"
     /\ resp[w2].op = "recommend"
     /\ resp[w1].book = resp[w2].book) => resp[w1] = resp[w2]

(* C8: once the load is over, no step of any request, however the requests  *)
(* interleave, changes TitleIndex, SimilarityMatrix, TopCatalog or          *)
(* FullCatalog, and two recommend calls with the same query return the same *)
(* ordered output, whatever ran before or between them.                     *)
C8_ReadOnly ==
  [][/\ lpc = "serving" => UNCHANGED shared
     /\ SameQuerySameOutput']_vars

\* two workers hold the same non-empty list for the same query
C8_Witness ==
  \E w1, w2 \in Workers :
    /\ w1 # w2
    /\ resp[w1].op = "recommend"
    /\ IsList(resp[w1])
    /\ resp[w1].items # <<>>
    /\ resp[w2] = resp[w1]

====
